---- MODULE Spec2Model ----
(***************************************************************************)
(* Model of the chatgpt-web relay server (service/src/index.ts) and its    *)
(* upstream client adapter (service/src/chatgpt/index.ts).                  *)
(*                                                                         *)
(* The process reads its environment, initialises the adapter module       *)
(* (credential check, mode selection, proxy set-up), starts listening and  *)
(* then serves POST requests.  A request is one slot r of Requests; its    *)
(* handler runs in atomic pieces separated by the awaits of the code.      *)
(***************************************************************************)
EXTENDS Integers, Sequences, FiniteSets, TLC

VARIABLES
    env,        \* process.env: variable name -> string, or UNSET
    phase,      \* "init" | "crashed" | "loaded" | "listening"
    api,        \* the module-level client: NoApi or a client record
    apiModel,   \* the module-level mode: UNSET | "ChatGPTAPI" | "ChatGPTUnofficialProxyAPI"
    pc,         \* per request: position of its handler
    req,        \* per request: route and parsed inputs
    res,        \* per request: the HTTP response object
    firstChunk, \* per request: the local flag of the /chat-process closure
    sendOpts,   \* per request: the options object handed to api.sendMessage
    emitted,    \* per request: the partial messages the upstream emitted for its send
    outcome,    \* per request: how its upstream exchange ended
    netCalls    \* number of billing requests issued by fetchBalance

vars == <<env, phase, api, apiModel, pc, req, res, firstChunk, sendOpts, emitted,
          outcome, netCalls>>

-----------------------------------------------------------------------------
(* Bounds of the model *)

\* number of request slots served concurrently
NumRequests == 2
\* largest number of partial messages the upstream emits for one send
MaxPartials == 2

Requests == 1..NumRequests

-----------------------------------------------------------------------------
(* JavaScript values *)

\* undefined: an environment variable that is not set, a missing body field
UNSET == "<undefined>"

\* the empty object {}
EmptyObj == [k \in {} |-> UNSET]

\* JavaScript truthiness of a string-or-undefined value
Truthy(v) == v # UNSET /\ v # ""

\* utils/is: isNotEmptyString(value)
isNotEmptyString(v) == v # UNSET /\ v # ""

\* a ?? b
Coalesce(a, b) == IF a = UNSET THEN b ELSE a

\* { ...a, ...b }
Spread(a, b) == [k \in (DOMAIN a) \cup (DOMAIN b) |-> IF k \in DOMAIN b THEN b[k] ELSE a[k]]

\* obj.key, undefined when the object has no such property
Prop(obj, key) == IF key \in DOMAIN obj THEN obj[key] ELSE UNSET

\* Unary plus on the environment strings of the model: the number a string
\* converts to, or NaN.  undefined and non-numeric text give NaN, the empty
\* string gives 0.
ToNumber(v) ==
    CASE v = UNSET   -> [nan |-> TRUE,  val |-> 0]
      [] v = ""      -> [nan |-> FALSE, val |-> 0]
      [] v = "5000"  -> [nan |-> FALSE, val |-> 5000]
      [] v = "60000" -> [nan |-> FALSE, val |-> 60000]
      [] OTHER       -> [nan |-> TRUE,  val |-> 0]

-----------------------------------------------------------------------------
(* Module initialisation of the adapter *)

EnvNames == {"OPENAI_API_KEY", "OPENAI_ACCESS_TOKEN", "OPENAI_API_MODEL",
             "OPENAI_API_BASE_URL", "API_REVERSE_PROXY", "AUTH_SECRET_KEY",
             "TIMEOUT_MS", "HTTPS_PROXY", "ALL_PROXY", "SOCKS_PROXY_HOST",
             "SOCKS_PROXY_PORT"}

\* const timeoutMs = !isNaN(+process.env.TIMEOUT_MS) ? +process.env.TIMEOUT_MS : 30 * 1000
DefaultTimeoutMs == 30 * 1000
timeoutMs(e) ==
    IF ~ToNumber(e["TIMEOUT_MS"]).nan THEN ToNumber(e["TIMEOUT_MS"]).val ELSE DefaultTimeoutMs

\* the guard of the throw at module load
MissingCredentials(e) == ~Truthy(e["OPENAI_API_KEY"]) /\ ~Truthy(e["OPENAI_ACCESS_TOKEN"])

\* options.fetch left as the client library's default
NoFetch == [agent |-> "none", target |-> <<>>, constructed |-> {}]

\* a slip that looks at the HTTPS proxy variables before the SOCKS ones
setupProxy_HttpsFirst(e) ==
    IF Truthy(e["HTTPS_PROXY"]) \/ Truthy(e["ALL_PROXY"])
    THEN [agent |-> "HttpsProxyAgent",
          target |-> <<IF Truthy(e["HTTPS_PROXY"]) THEN e["HTTPS_PROXY"] ELSE e["ALL_PROXY"]>>,
          constructed |-> {"HttpsProxyAgent"}]
    ELSE IF Truthy(e["SOCKS_PROXY_HOST"]) /\ Truthy(e["SOCKS_PROXY_PORT"])
         THEN [agent |-> "SocksProxyAgent",
               target |-> <<e["SOCKS_PROXY_HOST"], e["SOCKS_PROXY_PORT"]>>,
               constructed |-> {"SocksProxyAgent"}]
         ELSE NoFetch

\* setupProxy(options): the fetch override it installs on the options (the
\* agent it routes through and what that agent was built from), with the
\* agents it constructed on the way; NoFetch when it installs none.
setupProxy(e) ==
    IF Truthy(e["SOCKS_PROXY_HOST"]) /\ Truthy(e["SOCKS_PROXY_PORT"])
    THEN [agent |-> "SocksProxyAgent",
          target |-> <<e["SOCKS_PROXY_HOST"], e["SOCKS_PROXY_PORT"]>>,
          constructed |-> {"SocksProxyAgent"}]
    ELSE IF Truthy(e["HTTPS_PROXY"]) \/ Truthy(e["ALL_PROXY"])
         THEN LET httpsProxy == IF Truthy(e["HTTPS_PROXY"]) THEN e["HTTPS_PROXY"]
                                ELSE e["ALL_PROXY"]
              IN  IF Truthy(httpsProxy)
                  THEN [agent |-> "HttpsProxyAgent", target |-> <<httpsProxy>>,
                        constructed |-> {"HttpsProxyAgent"}]
                  ELSE NoFetch
         ELSE NoFetch

NoApi == [class |-> "none"]

\* a slip that tests the access token first
NewApi_TokenFirst(e) ==
    IF Truthy(e["OPENAI_ACCESS_TOKEN"])
    THEN [class |-> "ChatGPTUnofficialProxyAPI",
          accessToken |-> e["OPENAI_ACCESS_TOKEN"],
          apiReverseProxyUrl |-> IF isNotEmptyString(e["API_REVERSE_PROXY"])
                                 THEN e["API_REVERSE_PROXY"] ELSE UNSET,
          fetch |-> setupProxy(e)]
    ELSE [class |-> "ChatGPTAPI",
          apiKey |-> e["OPENAI_API_KEY"],
          model |-> IF isNotEmptyString(e["OPENAI_API_MODEL"]) THEN e["OPENAI_API_MODEL"]
                    ELSE "gpt-3.5-turbo",
          apiBaseUrl |-> IF isNotEmptyString(e["OPENAI_API_BASE_URL"])
                         THEN e["OPENAI_API_BASE_URL"] ELSE UNSET,
          fetch |-> setupProxy(e)]

\* the body of the async initialiser: it has no await, so it runs to its end
\* while the module loads
NewApi(e) ==
    IF Truthy(e["OPENAI_API_KEY"])
    THEN [class |-> "ChatGPTAPI",
          apiKey |-> e["OPENAI_API_KEY"],
          model |-> IF isNotEmptyString(e["OPENAI_API_MODEL"]) THEN e["OPENAI_API_MODEL"]
                    ELSE "gpt-3.5-turbo",
          apiBaseUrl |-> IF isNotEmptyString(e["OPENAI_API_BASE_URL"])
                         THEN e["OPENAI_API_BASE_URL"] ELSE UNSET,
          fetch |-> setupProxy(e)]
    ELSE [class |-> "ChatGPTUnofficialProxyAPI",
          accessToken |-> e["OPENAI_ACCESS_TOKEN"],
          apiReverseProxyUrl |-> IF isNotEmptyString(e["API_REVERSE_PROXY"])
                                 THEN e["API_REVERSE_PROXY"] ELSE UNSET,
          fetch |-> setupProxy(e)]

ReqVars == <<pc, req, res, firstChunk, sendOpts, emitted, outcome, netCalls>>

\* import of ./chatgpt: throw when both credentials are missing, else build
\* the client and record the mode
ModuleInit ==
    /\ phase = "init"
    /\ IF MissingCredentials(env)
       THEN /\ phase' = "crashed"
            /\ UNCHANGED <<api, apiModel>>
       ELSE /\ api' = NewApi(env)
            /\ apiModel' = NewApi(env).class
            /\ phase' = "loaded"
    /\ UNCHANGED <<env, ReqVars>>

\* app.listen(3002, ...)
AppListen ==
    /\ phase = "loaded"
    /\ phase' = "listening"
    /\ UNCHANGED <<env, api, apiModel, ReqVars>>

-----------------------------------------------------------------------------
(* The HTTP response object *)

NULL == "<null>"

NewRes == [statusCode |-> 200, contentType |-> UNSET, body |-> <<>>, sent |-> <<>>,
           ended |-> 0, lateWrites |-> 0]

NL == [t |-> "nl"]

\* JSON.stringify of a flat object: properties whose value is undefined are left out
JSONstringify(v) == [t |-> "json", v |-> [k \in {j \in DOMAIN v : v[j] # UNSET} |-> v[k]]]

\* res.write(text): text is a sequence of tokens, NL or a JSON text
ResWrite(rs, tokens) ==
    IF rs.ended > 0 THEN [rs EXCEPT !.lateWrites = @ + 1]
    ELSE [rs EXCEPT !.body = @ \o tokens]

\* res.end()
ResEnd(rs) == [rs EXCEPT !.ended = @ + 1]

\* res.send(payload)
ResSend(rs, payload) == [rs EXCEPT !.sent = Append(@, payload), !.ended = @ + 1]

\* utils: sendResponse(options). TRUE in .resolved for a fulfilled promise,
\* FALSE for a rejected one; .value is the envelope
sendResponse(type, message, data) ==
    [resolved |-> (type = "Success"),
     value |-> [message |-> message, data |-> data, status |-> type]]

\* middleware/auth: with a configured secret, a request passes only with the
\* matching bearer credential
AuthPasses(e, bearer) ==
    IF isNotEmptyString(e["AUTH_SECRET_KEY"]) THEN bearer = e["AUTH_SECRET_KEY"] ELSE TRUE

Unauthorized == [status |-> "Unauthorized", message |-> "Error: No access rights", data |-> NULL]

-----------------------------------------------------------------------------
(* chatReplyProcess *)

Digit(d) == CASE d = 0 -> "0" [] d = 1 -> "1" [] d = 2 -> "2" [] d = 3 -> "3" [] d = 4 -> "4"
              [] d = 5 -> "5" [] d = 6 -> "6" [] d = 7 -> "7" [] d = 8 -> "8" [] d = 9 -> "9"

\* String(n) for a natural number
RECURSIVE NatToString(_)
NatToString(n) == IF n < 10 THEN Digit(n) ELSE NatToString(n \div 10) \o Digit(n % 10)

\* the property key a status code is coerced to
ToPropertyKey(error) ==
    IF "statusCode" \in DOMAIN error THEN NatToString(error.statusCode) ELSE "undefined"

\* the table of fixed messages, keyed by property name; of each bilingual text
\* the part after the Chinese wording is kept
ErrorCodeMessage ==
    [k \in {"401", "403", "502", "503", "504", "500"} |->
        CASE k = "401" -> "[OpenAI] | Incorrect API key provided"
          [] k = "403" -> "[OpenAI] | Server refused to access, please try again later"
          [] k = "502" -> "[OpenAI] |  Bad Gateway"
          [] k = "503" -> "[OpenAI] | Server is busy, please try again later"
          [] k = "504" -> "[OpenAI] | Gateway Time-out"
          [] k = "500" -> "[OpenAI] | Internal Server Error"]

\* the options chatReplyProcess builds before the send; hasContext is the
\* truthiness of lastContext
SendMessageOptions(hasContext, lastContext, mode, e) ==
    IF hasContext
    THEN IF mode = "ChatGPTAPI"
         THEN [parentMessageId |-> Prop(lastContext, "parentMessageId")]
         ELSE Spread(EmptyObj, lastContext)
    ELSE [timeoutMs |-> timeoutMs(e)]

OnProgressKey == [onProgress |-> "process"]

\* a slip that lets the upstream's own text win over the table
FailMessage_UpstreamFirst(error) ==
    IF "message" \in DOMAIN error THEN error.message
    ELSE IF ToPropertyKey(error) \in DOMAIN ErrorCodeMessage
         THEN ErrorCodeMessage[ToPropertyKey(error)]
         ELSE "Please check the back-end console"

\* the message of the Fail envelope built in the catch block
FailMessage(error) ==
    IF ToPropertyKey(error) \in DOMAIN ErrorCodeMessage
    THEN ErrorCodeMessage[ToPropertyKey(error)]
    ELSE Coalesce(Prop(error, "message"), "Please check the back-end console")

\* the catch block of chatReplyProcess
ReplyOnError(error) == sendResponse("Fail", FailMessage(error), NULL)

\* the return of chatReplyProcess after a completed send
ReplyOnSuccess(response) == sendResponse("Success", NULL, response)

\* the k-th partial message the upstream emits for the send of request r
ChatMessage(r, k) ==
    [id |-> "chatcmpl-" \o NatToString(r) \o "-" \o NatToString(k),
     text |-> "text-" \o NatToString(k),
     role |-> "assistant"]

-----------------------------------------------------------------------------
(* POST /chat-process *)

\* arrival of a request, the auth middleware and the handler up to its await
ChatProcess(r, body, bearer) ==
    /\ phase = "listening"
    /\ pc[r] = "idle"
    /\ req' = [req EXCEPT ![r] = [route |-> "/chat-process", body |-> body, bearer |-> bearer]]
    /\ IF ~AuthPasses(env, bearer)
       THEN /\ res' = [res EXCEPT ![r] = ResSend(@, Unauthorized)]
            /\ pc' = [pc EXCEPT ![r] = "done"]
            /\ outcome' = [outcome EXCEPT ![r] = [kind |-> "unauthorized"]]
            /\ UNCHANGED <<firstChunk, sendOpts>>
       ELSE LET options == IF "options" \in DOMAIN body THEN body.options ELSE EmptyObj
            IN  /\ res' = [res EXCEPT ![r].contentType = "application/octet-stream"]
                /\ firstChunk' = [firstChunk EXCEPT ![r] = TRUE]
                /\ sendOpts' = [sendOpts EXCEPT ![r] =
                                   Spread(SendMessageOptions(TRUE, options, apiModel, env),
                                          OnProgressKey)]
                /\ pc' = [pc EXCEPT ![r] = "sending"]
                /\ UNCHANGED outcome
    /\ UNCHANGED <<env, phase, api, apiModel, emitted, netCalls>>

\* the text the onProgress callback of the route writes for one partial message
ChunkText(first, chat) ==
    IF first THEN <<JSONstringify(chat)>> ELSE <<NL, JSONstringify(chat)>>

\* a slip that keeps one first-chunk flag for the whole process
OnProgress_SharedFlag(r) ==
    /\ pc[r] = "sending"
    /\ Len(emitted[r]) < MaxPartials
    /\ LET chat == ChatMessage(r, Len(emitted[r]) + 1)
       IN  /\ emitted' = [emitted EXCEPT ![r] = Append(@, chat)]
           /\ res' = [res EXCEPT ![r] = ResWrite(@, ChunkText(firstChunk[r], chat))]
           /\ firstChunk' = [q \in Requests |-> FALSE]
    /\ UNCHANGED <<env, phase, api, apiModel, pc, req, sendOpts, outcome, netCalls>>

\* the upstream emits one more partial message for r's send; the callback runs
OnProgress(r) ==
    /\ pc[r] = "sending"
    /\ Len(emitted[r]) < MaxPartials
    /\ LET chat == ChatMessage(r, Len(emitted[r]) + 1)
       IN  /\ emitted' = [emitted EXCEPT ![r] = Append(@, chat)]
           /\ res' = [res EXCEPT ![r] = ResWrite(@, ChunkText(firstChunk[r], chat))]
           /\ firstChunk' = [firstChunk EXCEPT ![r] = FALSE]
    /\ UNCHANGED <<env, phase, api, apiModel, pc, req, sendOpts, outcome, netCalls>>

\* a slip that ends the response without writing the failure
RouteSettle_Swallow(rs, reply) == ResEnd(rs)

\* what the route does once chatReplyProcess has settled with reply: nothing
\* more on fulfilment, the catch block on rejection, then the finally block
RouteSettle(rs, reply) ==
    IF reply.resolved THEN ResEnd(rs)
    ELSE ResEnd(ResWrite(rs, <<JSONstringify(reply.value)>>))

\* the upstream completes r's send with its final message
SendMessageResolves(r) ==
    /\ pc[r] = "sending"
    /\ LET response == IF Len(emitted[r]) > 0 THEN emitted[r][Len(emitted[r])]
                       ELSE ChatMessage(r, 0)
           reply == ReplyOnSuccess(response)
       IN  /\ res' = [res EXCEPT ![r] = RouteSettle(@, reply)]
           /\ outcome' = [outcome EXCEPT ![r] = [kind |-> "resolved", reply |-> reply]]
    /\ pc' = [pc EXCEPT ![r] = "done"]
    /\ UNCHANGED <<env, phase, api, apiModel, req, firstChunk, sendOpts, emitted, netCalls>>

\* r's send fails with error
SendMessageRejects(r, error) ==
    /\ pc[r] = "sending"
    /\ LET reply == ReplyOnError(error)
       IN  /\ res' = [res EXCEPT ![r] = RouteSettle(@, reply)]
           /\ outcome' = [outcome EXCEPT ![r] =
                             [kind |-> "rejected", error |-> error, reply |-> reply]]
    /\ pc' = [pc EXCEPT ![r] = "done"]
    /\ UNCHANGED <<env, phase, api, apiModel, req, firstChunk, sendOpts, emitted, netCalls>>

TimeoutError == [message |-> "OpenAI timed out waiting for response"]

\* the timer of the send fires: the client library arms it only for a
\* positive timeoutMs in the options it was given
SendMessageTimesOut(r) ==
    /\ pc[r] = "sending"
    /\ "timeoutMs" \in DOMAIN sendOpts[r]
    /\ sendOpts[r].timeoutMs > 0
    /\ LET reply == ReplyOnError(TimeoutError)
       IN  /\ res' = [res EXCEPT ![r] = RouteSettle(@, reply)]
           /\ outcome' = [outcome EXCEPT ![r] =
                             [kind |-> "rejected", error |-> TimeoutError, reply |-> reply]]
    /\ pc' = [pc EXCEPT ![r] = "done"]
    /\ UNCHANGED <<env, phase, api, apiModel, req, firstChunk, sendOpts, emitted, netCalls>>

-----------------------------------------------------------------------------
(* POST /verify *)

\* a slip that leaves out the test for an empty token
VerifyThrows_NoEmptyTest(e, body) ==
    IF e["AUTH_SECRET_KEY"] # Prop(body, "token") THEN "Secret key is invalid"
    ELSE UNSET

\* the message of the Error thrown inside the try block, UNSET when none is
\* thrown; of the bilingual text of the second throw the English part is kept
VerifyThrows(e, body) ==
    IF ~Truthy(Prop(body, "token")) THEN "Secret key is empty"
    ELSE IF e["AUTH_SECRET_KEY"] # Prop(body, "token") THEN "Secret key is invalid"
    ELSE UNSET

\* the envelope the route sends
VerifyReply(e, body) ==
    IF VerifyThrows(e, body) = UNSET
    THEN [status |-> "Success", message |-> "Verify successfully", data |-> NULL]
    ELSE [status |-> "Fail", message |-> VerifyThrows(e, body), data |-> NULL]

\* the whole handler: it has no await
Verify(r, body) ==
    /\ phase = "listening"
    /\ pc[r] = "idle"
    /\ req' = [req EXCEPT ![r] = [route |-> "/verify", body |-> body, bearer |-> UNSET]]
    /\ res' = [res EXCEPT ![r] = ResSend(@, VerifyReply(env, body))]
    /\ pc' = [pc EXCEPT ![r] = "done"]
    /\ UNCHANGED <<env, phase, api, apiModel, firstChunk, sendOpts, emitted, outcome, netCalls>>

-----------------------------------------------------------------------------
(* fetchBalance, chatConfig and POST /config *)

\* a || b on string-or-undefined values
Or(a, b) == IF Truthy(a) THEN a ELSE b

\* digits of n, left-padded with zeros to width w
RECURSIVE Pad(_, _)
Pad(n, w) == IF w = 0 THEN "" ELSE Pad(n \div 10, w - 1) \o Digit(n % 10)

\* number of binary digits of n
RECURSIVE BitLength(_)
BitLength(n) == IF n = 0 THEN 0 ELSE 1 + BitLength(n \div 2)

\* Binary expansion of the fraction r/10000 by long division: k is the number
\* of significand bits still to produce, last the bit produced last, started
\* whether the leading 1 bit has been seen.  The result is how the double
\* nearest to the amount (round to nearest, ties to even) compares with the
\* amount itself: 1 above, 0 equal, -1 below.
DoubleError[r \in 0..9999, k \in 0..53, last \in {0, 1}, started \in BOOLEAN] ==
    IF k = 0
    THEN IF r = 0 THEN 0
         ELSE IF 2 * r > 10000 THEN 1
         ELSE IF 2 * r < 10000 THEN -1
         ELSE IF last = 1 THEN 1 ELSE -1
    ELSE IF ~started /\ 2 * r < 10000
         THEN DoubleError[(2 * r) % 10000, k, 0, FALSE]
         ELSE DoubleError[(2 * r) % 10000, k - 1, IF 2 * r >= 10000 THEN 1 ELSE 0, TRUE]

\* the double that holds the amount of tt ten-thousandths, compared with it
DoubleVsDecimal(tt) ==
    IF tt % 10000 = 0 THEN 0
    ELSE IF tt \div 10000 > 0
         THEN DoubleError[tt % 10000, 53 - BitLength(tt \div 10000), (tt \div 10000) % 2, TRUE]
         ELSE DoubleError[tt % 10000, 53, 0, FALSE]

\* Number.prototype.toFixed(3) of the double nearest to a non-negative amount
\* given in ten-thousandths: the thousandth nearest to the double's exact
\* value, the larger one when the double lies exactly half-way
toFixed3(tt) ==
    LET q == IF tt % 10 > 5 \/ (tt % 10 = 5 /\ DoubleVsDecimal(tt) >= 0)
             THEN tt \div 10 + 1 ELSE tt \div 10
    IN  NatToString(q \div 1000) \o "." \o Pad(q % 1000, 3)

\* a slip that asks the billing endpoint whether or not a key is configured
BalanceRequest_Always(e) ==
    (IF isNotEmptyString(e["OPENAI_API_BASE_URL"]) THEN e["OPENAI_API_BASE_URL"]
     ELSE "https://api.openai.com") \o "/dashboard/billing/credit_grants"

\* the request fetchBalance issues, UNSET when it issues none
BalanceRequest(e) ==
    IF ~isNotEmptyString(e["OPENAI_API_KEY"]) THEN UNSET
    ELSE (IF isNotEmptyString(e["OPENAI_API_BASE_URL"]) THEN e["OPENAI_API_BASE_URL"]
          ELSE "https://api.openai.com") \o "/dashboard/billing/credit_grants"

\* the try block of fetchBalance once axios.get has settled with reply
BalanceOf(reply) ==
    IF reply.kind # "ok" THEN "-"                          \* axios.get rejected
    ELSE IF reply.data.type \in {"undefined", "null"}
         THEN "-"                                          \* response.data.total_available throws
    ELSE LET ta == IF reply.data.type = "object" THEN reply.data.total_available
                   ELSE [type |-> "undefined"]             \* a property read on a primitive
             balance == IF ta.type \in {"null", "undefined"} THEN [type |-> "number", tt |-> 0]
                        ELSE ta
         IN  IF balance.type = "number" THEN toFixed3(balance.tt)
             ELSE "-"                                      \* balance.toFixed is not a function

\* chatConfig(): the envelope it resolves with, given the balance
chatConfig(e, mode, balance) ==
    sendResponse("Success", NULL,
        [apiModel |-> mode,
         reverseProxy |-> Coalesce(e["API_REVERSE_PROXY"], "-"),
         timeoutMs |-> timeoutMs(e),
         socksProxy |-> IF Truthy(e["SOCKS_PROXY_HOST"]) /\ Truthy(e["SOCKS_PROXY_PORT"])
                        THEN e["SOCKS_PROXY_HOST"] \o ":" \o e["SOCKS_PROXY_PORT"]
                        ELSE "-",
         httpsProxy |-> Coalesce(Or(e["HTTPS_PROXY"], e["ALL_PROXY"]), "-"),
         balance |-> balance])

\* arrival, auth and the handler up to the await of the billing request; with
\* no API key fetchBalance resolves at once and the handler runs to its end
Config(r, bearer) ==
    /\ phase = "listening"
    /\ pc[r] = "idle"
    /\ req' = [req EXCEPT ![r] = [route |-> "/config", body |-> EmptyObj, bearer |-> bearer]]
    /\ IF ~AuthPasses(env, bearer)
       THEN /\ res' = [res EXCEPT ![r] = ResSend(@, Unauthorized)]
            /\ pc' = [pc EXCEPT ![r] = "done"]
            /\ outcome' = [outcome EXCEPT ![r] = [kind |-> "unauthorized"]]
            /\ UNCHANGED netCalls
       ELSE IF BalanceRequest(env) = UNSET
            THEN /\ res' = [res EXCEPT ![r] = ResSend(@, chatConfig(env, apiModel, "-").value)]
                 /\ pc' = [pc EXCEPT ![r] = "done"]
                 /\ outcome' = [outcome EXCEPT ![r] = [kind |-> "config", billing |-> [kind |-> "none"]]]
                 /\ UNCHANGED netCalls
            ELSE /\ netCalls' = netCalls + 1
                 /\ pc' = [pc EXCEPT ![r] = "billing"]
                 /\ outcome' = [outcome EXCEPT ![r] =
                                   [kind |-> "billing", url |-> BalanceRequest(env)]]
                 /\ UNCHANGED res
    /\ UNCHANGED <<env, phase, api, apiModel, firstChunk, sendOpts, emitted>>

\* the billing request settles with reply; fetchBalance, chatConfig and the
\* route run to their end
BillingSettles(r, reply) ==
    /\ pc[r] = "billing"
    /\ LET response == chatConfig(env, apiModel, BalanceOf(reply))
       IN  res' = [res EXCEPT ![r] = ResSend(@, response.value)]
    /\ outcome' = [outcome EXCEPT ![r] = [kind |-> "config", billing |-> reply]]
    /\ pc' = [pc EXCEPT ![r] = "done"]
    /\ UNCHANGED <<env, phase, api, apiModel, req, firstChunk, sendOpts, emitted, netCalls>>

-----------------------------------------------------------------------------
(* Inputs of the model *)

BaseEnv == [n \in EnvNames |-> UNSET]

\* environments of the relay runs: credentials, timeout and auth secret vary
RelayEnvs ==
    { Spread(BaseEnv, [OPENAI_API_KEY |-> k, OPENAI_ACCESS_TOKEN |-> t,
                       TIMEOUT_MS |-> ms, AUTH_SECRET_KEY |-> s]) :
        k \in {UNSET, "", "sk-key"}, t \in {UNSET, "token"},
        ms \in {UNSET, "5000", "soon"}, s \in {UNSET, "secret"} }

Prompts == {"hello"}

\* the options a caller may echo back
Contexts == { EmptyObj,
              [parentMessageId |-> "m1"],
              [conversationId |-> "c1", parentMessageId |-> "m1"],
              [timeoutMs |-> 1000] }

ChatBodies == { [prompt |-> p] : p \in Prompts }
              \cup { [prompt |-> p, options |-> c] : p \in Prompts, c \in Contexts }

Bearers == {UNSET, "secret"}

NoReq == [route |-> UNSET]

InitWith(envs) ==
    /\ env \in envs
    /\ phase = "init"
    /\ api = NoApi
    /\ apiModel = UNSET
    /\ pc = [r \in Requests |-> "idle"]
    /\ req = [r \in Requests |-> NoReq]
    /\ res = [r \in Requests |-> NewRes]
    /\ firstChunk = [r \in Requests |-> TRUE]
    /\ sendOpts = [r \in Requests |-> EmptyObj]
    /\ emitted = [r \in Requests |-> <<>>]
    /\ outcome = [r \in Requests |-> [kind |-> "none"]]
    /\ netCalls = 0

\* runs that follow one request
Solo == {1}

\* status codes and message texts of the upstream failures
StatusCodes == {0, 200, 400, 401, 402, 403, 404, 408, 429, 500, 501, 502, 503, 504}
ErrorTexts == {"", "upstream overloaded", "[OpenAI] | Gateway Time-out"}

Errors == { [statusCode |-> c] : c \in StatusCodes }
          \cup { [statusCode |-> c, message |-> m] : c \in StatusCodes, m \in ErrorTexts }
          \cup { [message |-> m] : m \in ErrorTexts }
          \cup { EmptyObj }

Init == InitWith(RelayEnvs)

\* the relay serving one /chat-process request
Next ==
    \/ ModuleInit
    \/ AppListen
    \/ \E r \in Solo, body \in ChatBodies, bearer \in Bearers : ChatProcess(r, body, bearer)
    \/ \E r \in Solo : OnProgress(r)
    \/ \E r \in Solo : SendMessageResolves(r)
    \/ \E r \in Solo, error \in Errors : SendMessageRejects(r, error)
    \/ \E r \in Solo : SendMessageTimesOut(r)

Spec == Init /\ [][Next]_vars

\* The timer of a send is the one step the code itself schedules; what the
\* upstream does, and whether requests arrive, is up to the environment.
FairSpec ==
    /\ Spec
    /\ WF_vars(ModuleInit)
    /\ WF_vars(AppListen)
    /\ \A r \in Solo : WF_vars(SendMessageTimesOut(r))

\* --- concurrent /chat-process requests ---

ConcEnvs ==
    { Spread(BaseEnv, [OPENAI_API_KEY |-> k, OPENAI_ACCESS_TOKEN |-> "token"]) :
        k \in {UNSET, "sk-key"} }

ConcBodies == { [prompt |-> "hello"], [prompt |-> "hello", options |-> [timeoutMs |-> 1000]] }

ConcErrors == { [statusCode |-> 502] }

InitConc == InitWith(ConcEnvs)

NextConc ==
    \/ ModuleInit
    \/ AppListen
    \/ \E r \in Requests, body \in ConcBodies : ChatProcess(r, body, UNSET)
    \/ \E r \in Requests : OnProgress(r)
    \/ \E r \in Requests : SendMessageResolves(r)
    \/ \E r \in Requests, error \in ConcErrors : SendMessageRejects(r, error)
    \/ \E r \in Requests : SendMessageTimesOut(r)

SpecConc == InitConc /\ [][NextConc]_vars

\* --- start-up with the proxy variables ---

ProxyEnvs ==
    { Spread(BaseEnv, [OPENAI_API_KEY |-> k, OPENAI_ACCESS_TOKEN |-> "token",
                       SOCKS_PROXY_HOST |-> sh, SOCKS_PROXY_PORT |-> sp,
                       HTTPS_PROXY |-> hp, ALL_PROXY |-> ap]) :
        k \in {UNSET, "sk-key"},
        sh \in {UNSET, "", "127.0.0.1"}, sp \in {UNSET, "", "1080"},
        hp \in {UNSET, "", "http://https-proxy:8080"},
        ap \in {UNSET, "", "http://all-proxy:8080"} }

InitProxy == InitWith(ProxyEnvs)

NextProxy == ModuleInit \/ AppListen

SpecProxy == InitProxy /\ [][NextProxy]_vars

\* --- POST /verify ---

VerifyEnvs ==
    { Spread(BaseEnv, [OPENAI_API_KEY |-> "sk-key", AUTH_SECRET_KEY |-> s]) :
        s \in {UNSET, "", "secret", "other"} }

VerifyBodies == { EmptyObj } \cup { [token |-> t] : t \in {"", "secret", "other", "wrong"} }

InitVerify == InitWith(VerifyEnvs)

NextVerify ==
    \/ ModuleInit
    \/ AppListen
    \/ \E r \in Requests, body \in VerifyBodies : Verify(r, body)

SpecVerify == InitVerify /\ [][NextVerify]_vars

\* --- POST /config ---

ConfigEnvs ==
    { Spread(BaseEnv, [OPENAI_API_KEY |-> k, OPENAI_ACCESS_TOKEN |-> "token",
                       OPENAI_API_BASE_URL |-> u, AUTH_SECRET_KEY |-> s]) :
        k \in {UNSET, "", "sk-key"}, u \in {UNSET, "https://relay.example"},
        s \in {UNSET, "secret"} }

Number(tt) == [type |-> "number", tt |-> tt]

\* amounts of the billing replies, in ten-thousandths
Amounts == {0, 12, 15, 625, 10005, 99996, 185000}

BillingData ==
    { [type |-> "undefined"], [type |-> "null"], [type |-> "string"] }
    \cup { [type |-> "object", total_available |-> v] :
             v \in {[type |-> "undefined"], [type |-> "null"], [type |-> "string"]}
                   \cup { Number(a) : a \in Amounts } }

BillingReplies ==
    { [kind |-> "networkError"] }
    \cup { [kind |-> "status", code |-> c] : c \in {401, 429, 500} }
    \cup { [kind |-> "ok", data |-> d] : d \in BillingData }

InitConfig == InitWith(ConfigEnvs)

NextConfig ==
    \/ ModuleInit
    \/ AppListen
    \/ \E r \in Solo, bearer \in Bearers : Config(r, bearer)
    \/ \E r \in Solo, reply \in BillingReplies : BillingSettles(r, reply)

SpecConfig == InitConfig /\ [][NextConfig]_vars

-----------------------------------------------------------------------------
(* Properties *)

\* the JSON values of a response body, in the order written
Payloads(b) ==
    LET js == SelectSeq(b, LAMBDA tok : tok.t = "json")
    IN  [i \in 1..Len(js) |-> js[i].v]

ChatRequests == { r \in Requests : req[r].route = "/chat-process" }

Failed(r) == r \in ChatRequests /\ outcome[r].kind = "rejected"

\* C1: a /chat-process request whose upstream send failed, before or after
\* partial messages, has the failure object of chatReplyProcess as the chunk
\* written right after the partial messages, is ended once, and kept status 200.
C1_ErrorInBand ==
    \A r \in Requests :
        Failed(r) =>
            /\ pc[r] = "done"
            /\ res[r].ended = 1
            /\ res[r].lateWrites = 0
            /\ res[r].statusCode = 200
            /\ Len(Payloads(res[r].body)) = Len(emitted[r]) + 1
            /\ res[r].body[Len(res[r].body)].t = "json"
            /\ res[r].body[Len(res[r].body)].v = outcome[r].reply.value
            /\ outcome[r].reply.value.status = "Fail"

C1_Witness ==
    \E r \in Requests :
        /\ Failed(r)
        /\ Len(emitted[r]) >= 1
        /\ "statusCode" \in DOMAIN outcome[r].error
        /\ res[r].ended = 1

\* C2: every /chat-process request that passed auth and reached its send
\* eventually has an ended response with at least one chunk written.
C2_StreamsAndEnds ==
    \A r \in Solo :
        (pc[r] = "sending") ~> (pc[r] = "done" /\ res[r].ended >= 1
                                  /\ Len(Payloads(res[r].body)) >= 1)

\* C3: the options of every upstream send carry timeoutMs, equal to the
\* configured timeout (TIMEOUT_MS when numeric, else 30000).
C3_TimeoutCarried ==
    \A r \in ChatRequests :
        pc[r] = "sending" =>
            /\ "timeoutMs" \in DOMAIN sendOpts[r]
            /\ sendOpts[r].timeoutMs = timeoutMs(env)

KnownCodes == {401, 403, 500, 502, 503, 504}

\* C4: for a failure with a status code of the table the failure message is
\* the table's text for that code, whatever the upstream's own text; for any
\* other failure it is the upstream's text, or the generic fallback when the
\* failure has no text.
C4_NormalizedMessage ==
    \A r \in Requests :
        Failed(r) =>
            LET error == outcome[r].error
                message == outcome[r].reply.value.message
            IN  IF "statusCode" \in DOMAIN error /\ error.statusCode \in KnownCodes
                THEN message = ErrorCodeMessage[NatToString(error.statusCode)]
                ELSE IF "message" \in DOMAIN error
                     THEN message = error.message
                     ELSE message = "Please check the back-end console"

C4_Witness ==
    \E r \in Requests :
        /\ Failed(r)
        /\ "statusCode" \in DOMAIN outcome[r].error
        /\ outcome[r].error.statusCode = 502
        /\ "message" \in DOMAIN outcome[r].error
        /\ outcome[r].error.message = "upstream overloaded"
        /\ outcome[r].reply.value.message = "[OpenAI] |  Bad Gateway"

\* C5: /verify sends exactly one envelope: Fail 'Secret key is empty' for an
\* empty or missing token, Fail '... Secret key is invalid' for a non-empty
\* token that differs from AUTH_SECRET_KEY (also when that is not set), and
\* Success for a token equal to it.
C5_VerifyEnvelope ==
    \A r \in Requests :
        req[r].route = "/verify" =>
            LET hasToken == "token" \in DOMAIN req[r].body /\ req[r].body.token # ""
            IN  /\ pc[r] = "done"
                /\ res[r].ended = 1
                /\ Len(res[r].sent) = 1
                /\ res[r].statusCode = 200
                /\ ~hasToken =>
                       res[r].sent[1] =
                           [status |-> "Fail", message |-> "Secret key is empty", data |-> NULL]
                /\ (hasToken /\ req[r].body.token # env["AUTH_SECRET_KEY"]) =>
                       /\ res[r].sent[1].status = "Fail"
                       /\ res[r].sent[1].message = "Secret key is invalid"
                /\ (hasToken /\ req[r].body.token = env["AUTH_SECRET_KEY"]) =>
                       res[r].sent[1].status = "Success"

C5_Witness ==
    \E r, q \in Requests :
        /\ req[r].route = "/verify" /\ req[q].route = "/verify"
        /\ "token" \in DOMAIN req[r].body
        /\ req[r].body.token = "secret"
        /\ res[r].sent[1].status = "Success"
        /\ req[q].body = [token |-> "wrong"]
        /\ res[q].sent[1].status = "Fail"

Missing(v) == v = UNSET \/ v = ""

\* once the module is loaded a step leaves the client and the mode alone
ClientKept == (phase \in {"loaded", "listening"}) => UNCHANGED <<api, apiModel>>

\* C6: with both credentials missing the process never listens and no request
\* is handled; otherwise, from the moment it listens, the client and the mode
\* are the ones the credentials select (key mode whenever OPENAI_API_KEY is
\* present, proxy mode otherwise), no request is handled before that, and no
\* step changes the client or the mode afterwards.
C6_StartupMode ==
    /\ [](/\ (Missing(env["OPENAI_API_KEY"]) /\ Missing(env["OPENAI_ACCESS_TOKEN"])) =>
                 /\ phase \in {"init", "crashed"}
                 /\ api = NoApi
                 /\ \A r \in Requests : pc[r] = "idle"
          /\ (\E r \in Requests : pc[r] # "idle") => phase = "listening"
          /\ phase = "listening" =>
                 /\ apiModel = IF Missing(env["OPENAI_API_KEY"])
                               THEN "ChatGPTUnofficialProxyAPI" ELSE "ChatGPTAPI"
                 /\ api.class = apiModel)
    /\ [][ClientKept]_vars

C6_Witness ==
    /\ phase = "listening"
    /\ env["OPENAI_API_KEY"] = "sk-key"
    /\ env["OPENAI_ACCESS_TOKEN"] = "token"
    /\ apiModel = "ChatGPTAPI"
    /\ pc[1] = "done"

SocksSet == ~Missing(env["SOCKS_PROXY_HOST"]) /\ ~Missing(env["SOCKS_PROXY_PORT"])

\* C7: after start-up the client's fetch goes through the SOCKS agent exactly
\* when both SOCKS variables are set, and then no HTTPS proxy agent was
\* constructed; otherwise through the HTTPS proxy agent built from HTTPS_PROXY,
\* or from ALL_PROXY when HTTPS_PROXY is not set, when one of them is set; and
\* otherwise fetch is left as it was.
C7_ProxyChoice ==
    phase \in {"loaded", "listening"} =>
        /\ (api.fetch.agent = "SocksProxyAgent") <=> SocksSet
        /\ SocksSet => "HttpsProxyAgent" \notin api.fetch.constructed
        /\ (~SocksSet /\ ~Missing(env["HTTPS_PROXY"])) =>
               /\ api.fetch.agent = "HttpsProxyAgent"
               /\ api.fetch.target = <<env["HTTPS_PROXY"]>>
        /\ (~SocksSet /\ Missing(env["HTTPS_PROXY"]) /\ ~Missing(env["ALL_PROXY"])) =>
               /\ api.fetch.agent = "HttpsProxyAgent"
               /\ api.fetch.target = <<env["ALL_PROXY"]>>
        /\ (~SocksSet /\ Missing(env["HTTPS_PROXY"]) /\ Missing(env["ALL_PROXY"])) =>
               /\ api.fetch.agent = "none"
               /\ api.fetch.constructed = {}

C7_Witness ==
    /\ phase = "listening"
    /\ SocksSet
    /\ ~Missing(env["HTTPS_PROXY"])
    /\ ~Missing(env["ALL_PROXY"])
    /\ api.fetch.agent = "SocksProxyAgent"
    /\ api.fetch.constructed = {"SocksProxyAgent"}

\* the billing replies the claim counts as failures: no answer, an error
\* status, or a malformed body (not an object, or a total that is no number)
BillingFailed(reply) ==
    \/ reply.kind \in {"networkError", "status"}
    \/ reply.kind = "ok" /\ reply.data.type # "object"
    \/ reply.kind = "ok" /\ reply.data.type = "object"
         /\ reply.data.total_available.type = "string"

\* the billing replies on which the try block of fetchBalance throws: the
\* request is rejected, the body is undefined or null, or the total is present
\* and no number
BillingThrows(reply) ==
    \/ reply.kind \in {"networkError", "status"}
    \/ reply.kind = "ok" /\ reply.data.type \in {"undefined", "null"}
    \/ reply.kind = "ok" /\ reply.data.type = "object"
         /\ reply.data.total_available.type = "string"

\* the billing replies that carry no total: a body that is no object, or an
\* object whose total_available is undefined or null
BillingWithoutTotal(reply) ==
    /\ reply.kind = "ok"
    /\ \/ reply.data.type = "string"
       \/ reply.data.type = "object"
            /\ reply.data.total_available.type \in {"undefined", "null"}

\* C8 as stated: a /config request that passed auth is never left with an
\* error: with no API key no billing request is issued and the balance is
\* '-'; after a billing request that failed for any reason (network error,
\* error status, malformed body) the balance is '-'; and whenever the handler
\* has finished it has sent one Success envelope.
C8_BalanceNeverFails ==
    \A r \in Requests :
        (req[r].route = "/config" /\ outcome[r].kind # "unauthorized") =>
            /\ Missing(env["OPENAI_API_KEY"]) =>
                   /\ netCalls = 0
                   /\ pc[r] = "done"
                   /\ res[r].sent[1].data.balance = "-"
            /\ pc[r] = "done" =>
                   /\ Len(res[r].sent) = 1
                   /\ res[r].ended = 1
                   /\ res[r].sent[1].status = "Success"
                   /\ BillingFailed(outcome[r].billing) =>
                          res[r].sent[1].data.balance = "-"

\* C8, amended: with no API key no billing request is issued and the balance
\* is '-'; the balance is '-' after a billing request that was rejected
\* (network error, error status), answered with an undefined or null body, or
\* answered with a total that is no number; it is '0.000' after an answer that
\* carries no total (a body that is no object included); and whenever the
\* handler has finished it has sent one Success envelope.
C8_SilentDegrade ==
    \A r \in Requests :
        (req[r].route = "/config" /\ outcome[r].kind # "unauthorized") =>
            /\ Missing(env["OPENAI_API_KEY"]) =>
                   /\ netCalls = 0
                   /\ pc[r] = "done"
                   /\ res[r].sent[1].data.balance = "-"
            /\ pc[r] = "done" =>
                   /\ Len(res[r].sent) = 1
                   /\ res[r].ended = 1
                   /\ res[r].sent[1].status = "Success"
                   /\ BillingThrows(outcome[r].billing) =>
                          res[r].sent[1].data.balance = "-"
                   /\ BillingWithoutTotal(outcome[r].billing) =>
                          res[r].sent[1].data.balance = "0.000"

C8_Witness ==
    \E r \in Requests :
        /\ req[r].route = "/config"
        /\ pc[r] = "done"
        /\ outcome[r].kind = "config"
        /\ outcome[r].billing.kind = "status"
        /\ netCalls = 1
        /\ res[r].sent[1].status = "Success"
        /\ res[r].sent[1].data.balance = "-"

\* a body of JSON texts separated by single newlines
NewlineDelimited(b) ==
    /\ Len(b) = 0 \/ Len(b) % 2 = 1
    /\ \A i \in 1..Len(b) : b[i].t = IF i % 2 = 1 THEN "json" ELSE "nl"

\* C9: the body of a /chat-process response is a newline-delimited sequence
\* of JSON chunks (no leading newline, exactly one newline before every later
\* chunk, the error chunk included), nothing is written after the end, and the
\* response is ended at most once.
C9_NewlineDelimited ==
    \A r \in ChatRequests :
        /\ NewlineDelimited(res[r].body)
        /\ res[r].lateWrites = 0
        /\ res[r].ended <= 1
        /\ pc[r] = "done" => res[r].ended = 1

\* C10 as stated: the chunks of a response are exactly the partial messages
\* the upstream emitted for that request's send.
C10_OnlyPartials ==
    \A r \in ChatRequests : Payloads(res[r].body) = emitted[r]

\* C10, amended: the chunks of a response are the partial messages the
\* upstream emitted for that request's own send, in emission order, followed,
\* when that send failed, by the failure object of that send and nothing
\* else; a request's first-chunk flag is set exactly until its own first
\* partial message; and a pending send can complete whatever the other
\* requests are doing.
C10_OwnChunksOnly ==
    \A r \in ChatRequests :
        /\ \A k \in 1..Len(emitted[r]) : emitted[r][k] = ChatMessage(r, k)
        /\ Payloads(res[r].body) =
               emitted[r] \o (IF Failed(r) THEN <<outcome[r].reply.value>> ELSE <<>>)
        /\ pc[r] = "sending" =>
               /\ firstChunk[r] = (Len(emitted[r]) = 0)
               /\ ENABLED SendMessageResolves(r)

C10_Witness ==
    \E r, q \in Requests :
        /\ r # q
        /\ pc[r] = "sending" /\ Len(emitted[r]) >= 1
        /\ pc[q] = "done" /\ Failed(q) /\ Len(emitted[q]) >= 1
        /\ Len(Payloads(res[q].body)) = Len(emitted[q]) + 1

====
